---------------------------- MODULE Spec2Model ----------------------------
(***************************************************************************)
(* Model of src/grammar/grammar.py: Grammar (validation, FIRST, FOLLOW,    *)
(* LL(1) table construction) and LL1Table (validation, add_cell, analyze). *)
(*                                                                         *)
(* A Python str is a sequence of one-character strings; '' is <<>>.  The   *)
(* element '' of a FIRST set is the string "".  A call's outcome is a      *)
(* record [exc, ret]: exc is "None" when the call returned, else the name  *)
(* of the exception that left it.                                          *)
(***************************************************************************)
EXTENDS Integers, Sequences, FiniteSets, TLC

VARIABLES
    grammar,        \* the Grammar object (NoObject until one is constructed)
    table,          \* the LL1Table object (NoObject until one exists)
    call,           \* the last finished call: what was called, on what, its outcome
    start,          \* analyze: local variable start (the working stack)
    input_string,   \* analyze: local variable input_string (the remaining input)
    pc              \* analyze: "idle", "loop" (at the while test), "accepted",
                    \* "SyntaxError", "MemoryError"

vars == <<grammar, table, call, start, input_string, pc>>

---------------------------------------------------------------------------
(* Bounds of the model *)

\* longest productions collection handed to Grammar
MaxProds == 3
\* longest input string handed to analyze
MaxInputLen == 3
\* deepest chain of compute_first_rec frames before the interpreter raises
\* RecursionError (CPython's limit, scaled to the model's grammars)
RecursionLimit == 6
\* most cells of a hand-built LL1Table, counting those add_cell adds
MaxCells == 2
\* longest str analyze can hold in start before the interpreter raises
\* MemoryError (the memory of the machine, scaled to the model's inputs)
MaxStack == 6

---------------------------------------------------------------------------
(* Values *)

EndMarker == "$"
Epsilon == ""

\* Production.right may be None (line 81); a one-element sequence that is no str
None == <<"None">>

NoObject == [kind |-> "none"]

Production(left, right) == [left |-> left, right |-> right]

TableCell(non_terminal, terminal, right) ==
    [non_terminal |-> non_terminal, terminal |-> terminal, right |-> right]

Returned(ret) == [exc |-> "None", ret |-> ret]
Raised(exc) == [exc |-> exc, ret |-> {}]

\* the symbols of a str, as a set
Symbols(s) == {s[i] : i \in 1..Len(s)}

\* all sequences over S of length at most n
RECURSIVE SeqsUpTo(_, _)
SeqsUpTo(S, n) ==
    IF n = 0 THEN {<<>>}
    ELSE LET shorter == SeqsUpTo(S, n - 1)
         IN  shorter \cup {Append(s, x) : s \in shorter, x \in S}

---------------------------------------------------------------------------
(* Grammar.__init__ *)

\* mutant of ProductionRaises: the symbols of p.right are not looked at
ProductionRaisesLeftOnly(terminals, non_terminals, p) ==
    p.left \notin non_terminals

\* the loop of lines 74-90: TRUE when some production makes it raise
ProductionRaises(terminals, non_terminals, p) ==
    \/ p.left \notin non_terminals
    \/ /\ p.right # None
       /\ \E i \in 1..Len(p.right) :
             /\ p.right[i] \notin non_terminals
             /\ p.right[i] \notin terminals

GrammarInit(terminals, non_terminals, productions, axiom) ==
    IF terminals \cap non_terminals # {} THEN
        [exc |-> "ValueError", obj |-> NoObject]
    ELSE IF axiom \notin non_terminals THEN
        [exc |-> "ValueError", obj |-> NoObject]
    ELSE IF \E i \in 1..Len(productions) :
                ProductionRaises(terminals, non_terminals, productions[i]) THEN
        [exc |-> "ValueError", obj |-> NoObject]
    ELSE
        [exc |-> "None",
         obj |-> [kind |-> "Grammar",
                  terminals |-> terminals,
                  non_terminals |-> non_terminals,
                  productions |-> productions,
                  axiom |-> axiom]]

---------------------------------------------------------------------------
(* Grammar.compute_first_rec, Grammar.compute_first *)

RECURSIVE compute_first_rec(_, _, _), compute_first_loop(_, _, _, _, _)

\* depth counts the compute_first_rec frames on the interpreter's stack
compute_first_rec(g, sub_str, depth) ==
    IF depth > RecursionLimit THEN Raised("RecursionError")
    ELSE IF sub_str = <<>> THEN Returned({Epsilon})
    ELSE IF sub_str[1] \in g.terminals THEN Returned({sub_str[1]})
    ELSE compute_first_loop(g, sub_str, depth, 1, {})

\* the for loop of lines 113-115 from production i on, first_set so far
compute_first_loop(g, sub_str, depth, i, first_set) ==
    IF i > Len(g.productions) THEN Returned(first_set)
    ELSE IF sub_str[1] = g.productions[i].left THEN
        LET r == compute_first_rec(g, g.productions[i].right \o Tail(sub_str),
                                   depth + 1)
        IN  IF r.exc # "None" THEN r
            ELSE compute_first_loop(g, sub_str, depth, i + 1, first_set \cup r.ret)
    ELSE compute_first_loop(g, sub_str, depth, i + 1, first_set)

\* mutant of compute_first: only the first symbol of sentence is checked
compute_first_head_only(g, sentence) ==
    IF sentence = None THEN Raised("TypeError")
    ELSE IF /\ Len(sentence) > 0
            /\ sentence[1] \notin g.terminals
            /\ sentence[1] \notin g.non_terminals THEN
        Raised("ValueError")
    ELSE compute_first_rec(g, sentence, 1)

compute_first(g, sentence) ==
    IF sentence = None THEN Raised("TypeError")
    ELSE IF \E i \in 1..Len(sentence) :
                /\ sentence[i] \notin g.terminals
                /\ sentence[i] \notin g.non_terminals THEN
        Raised("ValueError")
    ELSE compute_first_rec(g, sentence, 1)

---------------------------------------------------------------------------
(* Grammar.compute_follow *)

RECURSIVE FollowRight(_, _, _, _), FollowPass(_, _, _), FollowLoop(_, _, _)

\* the inner for loop of lines 152-160 from position i (1-based) of p.right on
FollowRight(g, p, i, follows) ==
    IF i > Len(p.right) THEN Returned(follows)
    ELSE LET s == p.right[i] IN
        IF s \notin g.non_terminals THEN FollowRight(g, p, i + 1, follows)
        ELSE IF i = Len(p.right) THEN
            FollowRight(g, p, i + 1,
                        [follows EXCEPT ![s] = @ \cup follows[p.left]])
        ELSE
            LET first == compute_first(g, SubSeq(p.right, i + 1, Len(p.right)))
                f1 == IF Epsilon \in first.ret
                      THEN [follows EXCEPT ![s] = @ \cup follows[p.left]]
                      ELSE follows
                f2 == [f1 EXCEPT ![s] = @ \cup (first.ret \ {Epsilon})]
            IN  IF first.exc # "None" THEN first
                ELSE FollowRight(g, p, i + 1, f2)

\* one pass of the for loop of line 151, from production j on
FollowPass(g, j, follows) ==
    IF j > Len(g.productions) THEN Returned(follows)
    ELSE IF g.productions[j].right = None THEN Raised("TypeError")
    ELSE LET r == FollowRight(g, g.productions[j], 1, follows)
         IN  IF r.exc # "None" THEN r ELSE FollowPass(g, j + 1, r.ret)

\* the while loop leaving one pass late: after the pass that changed
\* nothing it makes one more
RECURSIVE FollowLoopExtraPass(_, _, _)
FollowLoopExtraPass(g, follows_old, passes) ==
    LET r == FollowPass(g, 1, follows_old)
    IN  IF r.exc # "None" THEN [exc |-> r.exc, ret |-> r.ret, passes |-> passes]
        ELSE IF r.ret = follows_old THEN
            [exc |-> "None", ret |-> r.ret, passes |-> passes + 1]
        ELSE FollowLoopExtraPass(g, r.ret, passes + 1)

\* the while loop of lines 150-163; passes counts the passes begun so far
FollowLoop(g, follows_old, passes) ==
    LET r == FollowPass(g, 1, follows_old)
    IN  IF r.exc # "None" THEN [exc |-> r.exc, ret |-> r.ret, passes |-> passes]
        ELSE IF r.ret = follows_old THEN
            [exc |-> "None", ret |-> r.ret, passes |-> passes]
        ELSE FollowLoop(g, r.ret, passes + 1)

\* the FOLLOW sets of all non-terminals and the number of passes made
compute_follow_all(g) ==
    IF g.productions = <<>> THEN
        [exc |-> "IndexError", ret |-> {}, passes |-> 0]
    ELSE
        LET follows0 == [nt \in g.non_terminals |->
                            IF nt = g.productions[1].left THEN {EndMarker} ELSE {}]
        IN  FollowLoop(g, follows0, 1)

compute_follow(g, symbol) ==
    LET r == compute_follow_all(g)
    IN  IF r.exc # "None" THEN [exc |-> r.exc, ret |-> {}, passes |-> r.passes]
        ELSE IF symbol \notin g.non_terminals THEN
            [exc |-> "KeyError", ret |-> {}, passes |-> r.passes]
        ELSE [exc |-> "None", ret |-> r.ret[symbol], passes |-> r.passes]


---------------------------------------------------------------------------
(* LL1Table.__init__ *)

\* the loop of lines 253-274: TRUE when cell c makes it raise
CellRaises(non_terminals, terminals, c) ==
    \/ c.non_terminal \notin non_terminals
    \/ c.terminal \notin terminals
    \/ \E i \in 1..Len(c.right) :
          /\ c.right[i] \notin non_terminals
          /\ c.right[i] \notin terminals

\* the dict comprehension of line 278: a later cell replaces an earlier one
\* with the same key
CellsDict(cells) ==
    [key \in {<<cells[i].non_terminal, cells[i].terminal>> : i \in 1..Len(cells)} |->
        LET last == CHOOSE i \in 1..Len(cells) :
                        /\ <<cells[i].non_terminal, cells[i].terminal>> = key
                        /\ \A j \in (i + 1)..Len(cells) :
                              <<cells[j].non_terminal, cells[j].terminal>> # key
        IN  cells[last].right]

LL1TableInit(non_terminals, terminals, cells) ==
    IF terminals \cap non_terminals # {} THEN
        [exc |-> "ValueError", obj |-> NoObject]
    ELSE IF \E i \in 1..Len(cells) :
                CellRaises(non_terminals, terminals, cells[i]) THEN
        [exc |-> "ValueError", obj |-> NoObject]
    ELSE
        [exc |-> "None",
         obj |-> [kind |-> "LL1Table",
                  terminals |-> terminals,
                  non_terminals |-> non_terminals,
                  cells |-> CellsDict(cells)]]

---------------------------------------------------------------------------
(* Grammar.get_ll1_table, Grammar.is_ll1 *)

\* a list holding the elements of a set, in some order
RECURSIVE SetToSeq(_)
SetToSeq(S) ==
    IF S = {} THEN <<>>
    ELSE LET x == CHOOSE y \in S : TRUE
         IN  <<x>> \o SetToSeq(S \ {x})

\* The loop of lines 176-188 from production j on: the set of ways it can
\* end, each [exc, ret], ret being "None" (return None) or "cells" with the
\* list cells.  Line 177 iterates a set, in an order the interpreter picks:
\* the keys p claims are tried in any order, and only when '' comes up is
\* compute_follow called.  A key tried twice returns None whatever the
\* order; the order decides the outcome only when compute_follow raises
\* and a key of FIRST(p.right) is in used already.
RECURSIVE TableLoop(_, _, _, _)
TableLoop(g, j, cells, used) ==
    IF j > Len(g.productions) THEN
        {[exc |-> "None", ret |-> "cells", cells |-> cells]}
    ELSE
        LET p == g.productions[j]
            first == compute_first(g, p.right)
            firstKeys == {<<p.left, t>> : t \in first.ret \ {Epsilon}}
            follow == compute_follow(g, p.left)
            followKeys == {<<p.left, t2>> : t2 \in follow.ret}
            returnNone == [exc |-> "None", ret |-> "None", cells |-> <<>>]
        IN  IF first.exc # "None" THEN
                {[exc |-> first.exc, ret |-> "None", cells |-> <<>>]}
            ELSE IF Epsilon \notin first.ret THEN
                IF firstKeys \cap used # {} THEN {returnNone}
                ELSE TableLoop(g, j + 1,
                        cells \o SetToSeq({TableCell(p.left, k[2], p.right) :
                                              k \in firstKeys}),
                        used \cup firstKeys)
            ELSE IF follow.exc # "None" THEN
                {[exc |-> follow.exc, ret |-> "None", cells |-> <<>>]}
                \cup (IF firstKeys \cap used # {} THEN {returnNone} ELSE {})
            ELSE IF \/ firstKeys \cap used # {}
                    \/ followKeys \cap (used \cup firstKeys) # {} THEN
                {returnNone}
            ELSE TableLoop(g, j + 1,
                    cells \o SetToSeq({TableCell(p.left, k[2], p.right) :
                                          k \in firstKeys \cup followKeys}),
                    used \cup firstKeys \cup followKeys)

\* the outcomes of get_ll1_table: [exc, obj], obj being NoObject for None
get_ll1_table(g) ==
    {IF r.exc # "None" \/ r.ret = "None" THEN [exc |-> r.exc, obj |-> NoObject]
     ELSE LL1TableInit(g.non_terminals, g.terminals \cup {EndMarker}, r.cells) :
        r \in TableLoop(g, 1, <<>>, {})}

\* the outcomes of is_ll1: [exc, ret], ret a set holding the Boolean returned
is_ll1(g) ==
    {IF r.exc # "None" THEN Raised(r.exc)
     ELSE Returned({r.obj # NoObject}) : r \in get_ll1_table(g)}

---------------------------------------------------------------------------
(* LL1Table.add_cell *)

\* mutant of add_cell: a filled cell is overwritten instead of refused
add_cell_overwrite(t, cell) ==
    [exc |-> "None",
     cells |-> [key \in DOMAIN t.cells \cup
                           {<<cell.non_terminal, cell.terminal>>} |->
                   IF key = <<cell.non_terminal, cell.terminal>>
                   THEN cell.right ELSE t.cells[key]]]

\* [exc, cells]: the outcome and the table's cells afterwards
add_cell(t, cell) ==
    IF <<cell.non_terminal, cell.terminal>> \in DOMAIN t.cells THEN
        [exc |-> "RepeatedCellError", cells |-> t.cells]
    ELSE
        [exc |-> "None",
         cells |-> [key \in DOMAIN t.cells \cup
                               {<<cell.non_terminal, cell.terminal>>} |->
                       IF key = <<cell.non_terminal, cell.terminal>>
                       THEN cell.right ELSE t.cells[key]]]


---------------------------------------------------------------------------
(* LL1Table.analyze: one trip through the while loop of lines 319-329, or, *)
(* when the loop condition fails, the test of lines 331-334.               *)

\* analyze with the test of line 331 on the stack instead of the input
analyze_step_stack_only(cells, st, inp) ==
    IF Len(st) > 0 /\ Len(inp) > 0 THEN
        LET key == <<st[1], inp[1]>> IN
        IF key \notin DOMAIN cells THEN
            [pc |-> "SyntaxError", start |-> st, input_string |-> inp]
        ELSE
            LET expanded == cells[key] \o Tail(st) IN
            IF Len(expanded) > 0 /\ expanded[1] = inp[1] THEN
                [pc |-> "loop", start |-> Tail(expanded), input_string |-> Tail(inp)]
            ELSE
                [pc |-> "loop", start |-> expanded, input_string |-> inp]
    ELSE IF st # <<>> THEN
        [pc |-> "SyntaxError", start |-> st, input_string |-> inp]
    ELSE
        [pc |-> "accepted", start |-> st, input_string |-> inp]

analyze_step(cells, st, inp) ==
    IF Len(st) > 0 /\ Len(inp) > 0 THEN
        LET key == <<st[1], inp[1]>> IN
        IF key \notin DOMAIN cells THEN
            [pc |-> "SyntaxError", start |-> st, input_string |-> inp]
        ELSE
            LET expanded == cells[key] \o Tail(st) IN
            IF Len(expanded) > 0 /\ expanded[1] = inp[1] THEN
                [pc |-> "loop", start |-> Tail(expanded), input_string |-> Tail(inp)]
            ELSE
                [pc |-> "loop", start |-> expanded, input_string |-> inp]
    ELSE IF inp # <<EndMarker>> THEN
        [pc |-> "SyntaxError", start |-> st, input_string |-> inp]
    ELSE
        [pc |-> "accepted", start |-> st, input_string |-> inp]

---------------------------------------------------------------------------
(* The inputs the model draws *)

Terminals0 == {"a", "b"}
NonTerminals0 == {"S", "A"}

\* productions over Terminals0 and NonTerminals0
ProductionPool ==
    { Production("S", <<"a", "b">>),
      Production("S", <<"A", "a">>),
      Production("S", <<"A">>),
      Production("S", <<"S", "a">>),
      Production("S", <<"a", "S", "b">>),
      Production("A", <<"a">>),
      Production("A", <<>>),
      Production("A", <<"A">>) }

ProductionLists == SeqsUpTo(ProductionPool, MaxProds)

\* arguments of compute_first; "w" is in neither alphabet
SentencePool ==
    { <<>>, <<"a">>, <<"S">>, <<"A">>, <<"w">>,
      <<"a", "S">>, <<"a", "w">>, <<"A", "b">>, <<"A", "S">>, <<"A", "w">>,
      <<"S", "A">> }

\* arguments of Grammar(...) that may break its rules
ArgTerminals == {{"a", "b"}, {"a", "b", "S"}}
ArgNonTerminals == {{"S", "A"}, {"S"}}
ArgAxioms == {"S", "A"}
ArgProductionPool ==
    { Production("A", <<"a">>),
      Production("S", None),
      Production("S", <<"a", "w">>),
      Production("a", <<"b">>) }

\* input strings of analyze
InputStrings == SeqsUpTo(Terminals0 \cup {EndMarker}, MaxInputLen)

\* arguments of LL1Table(...) and add_cell(...); "q", "Z", "w" are in no alphabet
TableTerminals == {{"a", "b", "$"}, {"a", "b", "$", "S"}}
CellPool ==
    { TableCell("S", "a", <<"a">>),
      TableCell("S", "a", <<"S", "a">>),
      TableCell("S", "a", <<"A">>),
      TableCell("A", "a", <<"S">>),
      TableCell("S", "$", <<>>),
      TableCell("S", "q", <<"a">>),
      TableCell("Z", "a", <<"a">>),
      TableCell("A", "b", <<"w">>) }

\* cells of the hand-built tables analyze runs on: those of CellPool and
\* the cells of S -> aA, A -> b, A -> ''
AnalyzeCellPool ==
    CellPool \cup
    { TableCell("S", "a", <<"a", "A">>),
      TableCell("A", "b", <<"b">>),
      TableCell("A", "$", <<>>) }

\* the start arguments of analyze on a hand-built table: a non-terminal, or
\* the empty str
TableStarts == {<<"S">>, <<"A">>, <<>>}

---------------------------------------------------------------------------
(* State *)

NoCall == [op |-> "none"]

InitEmpty ==
    /\ grammar = NoObject
    /\ table = NoObject
    /\ call = NoCall
    /\ start = <<>>
    /\ input_string = <<>>
    /\ pc = "idle"

\* a Grammar made from the pools, no call on it yet
InitGrammar ==
    /\ \E productions \in ProductionLists, axiom \in NonTerminals0 :
          grammar = GrammarInit(Terminals0, NonTerminals0, productions, axiom).obj
    /\ table = NoObject
    /\ call = NoCall
    /\ start = <<>>
    /\ input_string = <<>>
    /\ pc = "idle"

\* a Grammar whose axiom is the left of its first production, as in the
\* grammars of test_analyze.py, and the table get_ll1_table returned for it
InitAnalyze ==
    /\ \E productions \in ProductionLists \ {<<>>} :
          /\ grammar = GrammarInit(Terminals0, NonTerminals0, productions,
                                   productions[1].left).obj
          /\ \E r \in get_ll1_table(grammar) :
                /\ r.exc = "None"
                /\ r.obj # NoObject
                /\ table = r.obj
    /\ call = NoCall
    /\ start = <<>>
    /\ input_string = <<>>
    /\ pc = "idle"

\* a hand-built LL1Table that LL1Table(...) constructed, no call on it yet
InitTableAnalyze ==
    /\ grammar = NoObject
    /\ \E cells \in SeqsUpTo(AnalyzeCellPool, MaxCells) :
          LET r == LL1TableInit(NonTerminals0, Terminals0 \cup {EndMarker}, cells) IN
          /\ r.exc = "None"
          /\ table = r.obj
    /\ call = NoCall
    /\ start = <<>>
    /\ input_string = <<>>
    /\ pc = "idle"

---------------------------------------------------------------------------
(* Actions *)

NewGrammar(terminals, non_terminals, productions, axiom) ==
    LET r == GrammarInit(terminals, non_terminals, productions, axiom) IN
    /\ grammar' = r.obj
    /\ call' = [op |-> "Grammar", terminals |-> terminals,
                non_terminals |-> non_terminals, productions |-> productions,
                axiom |-> axiom, exc |-> r.exc]
    /\ UNCHANGED <<table, start, input_string, pc>>

ComputeFirst(sentence) ==
    /\ grammar # NoObject
    /\ call' = [op |-> "compute_first", sentence |-> sentence,
                out |-> compute_first(grammar, sentence)]
    /\ UNCHANGED <<grammar, table, start, input_string, pc>>

ComputeFollow(symbol) ==
    /\ grammar # NoObject
    /\ call' = [op |-> "compute_follow", symbol |-> symbol,
                out |-> compute_follow(grammar, symbol)]
    /\ UNCHANGED <<grammar, table, start, input_string, pc>>

\* the table returned is held in call.out.obj
GetLL1Table ==
    /\ grammar # NoObject
    /\ \E r \in get_ll1_table(grammar) :
          call' = [op |-> "get_ll1_table", out |-> r]
    /\ UNCHANGED <<grammar, table, start, input_string, pc>>

IsLL1 ==
    /\ grammar # NoObject
    /\ \E r \in is_ll1(grammar) :
          call' = [op |-> "is_ll1", out |-> r]
    /\ UNCHANGED <<grammar, table, start, input_string, pc>>

NewTable(non_terminals, terminals, cells) ==
    LET r == LL1TableInit(non_terminals, terminals, cells) IN
    /\ table' = r.obj
    /\ call' = [op |-> "LL1Table", non_terminals |-> non_terminals,
                terminals |-> terminals, cells |-> cells, exc |-> r.exc]
    /\ UNCHANGED <<grammar, start, input_string, pc>>

AddCell(cell) ==
    /\ table # NoObject
    /\ pc # "loop"
    /\ \/ <<cell.non_terminal, cell.terminal>> \in DOMAIN table.cells
       \/ Cardinality(DOMAIN table.cells) < MaxCells
    /\ LET r == add_cell(table, cell) IN
          /\ table' = [table EXCEPT !.cells = r.cells]
          /\ call' = [op |-> "add_cell", cell |-> cell, exc |-> r.exc]
    /\ UNCHANGED <<grammar, start, input_string, pc>>

\* analyze is entered: its parameters are bound
AnalyzeCall(input, start_symbol) ==
    /\ table # NoObject
    /\ pc # "loop"
    /\ call' = [op |-> "analyze", input_string |-> input, start |-> start_symbol]
    /\ start' = start_symbol
    /\ input_string' = input
    /\ pc' = "loop"
    /\ UNCHANGED <<grammar, table>>

\* a step of analyze that takes the cell it uses out of the table
\* (self.cells.pop(key) for self.cells[key])
AnalyzeStepPopsCell ==
    /\ pc = "loop"
    /\ LET r == analyze_step(table.cells, start, input_string) IN
          IF Len(r.start) > MaxStack THEN
              /\ pc' = "MemoryError"
              /\ UNCHANGED <<start, input_string, table>>
          ELSE
              /\ pc' = r.pc
              /\ start' = r.start
              /\ input_string' = r.input_string
              /\ table' = IF r.pc = "loop"
                           THEN [table EXCEPT !.cells =
                                    [key \in DOMAIN table.cells \
                                                {<<start[1], input_string[1]>>} |->
                                        table.cells[key]]]
                           ELSE table
    /\ UNCHANGED <<grammar, call>>

\* One trip through the loop, or the final test.  The str built at line 325
\* is held only if the interpreter has the memory for it: a str longer than
\* MaxStack leaves analyze with MemoryError.
AnalyzeStep ==
    /\ pc = "loop"
    /\ LET r == analyze_step(table.cells, start, input_string) IN
          IF Len(r.start) > MaxStack THEN
              /\ pc' = "MemoryError"
              /\ UNCHANGED <<start, input_string>>
          ELSE
              /\ pc' = r.pc
              /\ start' = r.start
              /\ input_string' = r.input_string
    /\ UNCHANGED <<grammar, table, call>>

---------------------------------------------------------------------------
(* Specifications *)

\* FIRST, FOLLOW and table construction on a constructed Grammar
Next ==
    \/ \E sentence \in SentencePool : ComputeFirst(sentence)
    \/ \E symbol \in NonTerminals0 \cup {"a"} : ComputeFollow(symbol)
    \/ GetLL1Table
    \/ IsLL1

Spec == InitGrammar /\ [][Next]_vars

\* construction of a Grammar from arguments of any kind
NextGrammar ==
    \E terminals \in ArgTerminals, non_terminals \in ArgNonTerminals,
       productions \in SeqsUpTo(ArgProductionPool, MaxProds), axiom \in ArgAxioms :
        NewGrammar(terminals, non_terminals, productions, axiom)

SpecGrammar == InitEmpty /\ [][NextGrammar]_vars

\* analyze on the table of a Grammar, from the Grammar's axiom
NextAnalyze ==
    \/ \E input \in InputStrings : AnalyzeCall(input, <<grammar.axiom>>)
    \/ AnalyzeStep

SpecAnalyze == InitAnalyze /\ [][NextAnalyze]_vars

\* a hand-built LL1Table and add_cell on it
NextTable ==
    \/ \E terminals \in TableTerminals, cells \in SeqsUpTo(CellPool, MaxCells) :
          NewTable(NonTerminals0, terminals, cells)
    \/ \E cell \in CellPool : AddCell(cell)

SpecTable == InitEmpty /\ [][NextTable]_vars

\* analyze on a hand-built LL1Table, from any start
NextTableAnalyze ==
    \/ \E input \in InputStrings, start_symbol \in TableStarts :
          AnalyzeCall(input, start_symbol)
    \/ AnalyzeStep

SpecTableAnalyze == InitTableAnalyze /\ [][NextTableAnalyze]_vars

\* the same, with the loop of analyze running on while it can: a running
\* interpreter executes the next statement of the loop (lines 319-329)
SpecTableAnalyzeFair ==
    InitTableAnalyze /\ [][NextTableAnalyze]_vars /\ WF_vars(AnalyzeStep)


---------------------------------------------------------------------------
(* What the specification calls FIRST, FOLLOW, conflict and derivable,     *)
(* each as the least fixed point of its rules.  The claims compare what    *)
(* the code returns with these.                                            *)

\* FIRST of a sequence, given the FIRST set F[X] of every non-terminal X
RECURSIVE SeqFirst(_, _, _)
SeqFirst(g, F, s) ==
    IF s = <<>> THEN {Epsilon}
    ELSE IF s[1] \in g.terminals THEN {s[1]}
    ELSE (F[s[1]] \ {Epsilon})
         \cup (IF Epsilon \in F[s[1]] THEN SeqFirst(g, F, Tail(s)) ELSE {})

RECURSIVE FirstFix(_, _)
FirstFix(g, F) ==
    LET next == [X \in g.non_terminals |->
                    F[X] \cup UNION {SeqFirst(g, F, g.productions[k].right) :
                                       k \in {m \in 1..Len(g.productions) :
                                                 g.productions[m].left = X}}]
    IN  IF next = F THEN F ELSE FirstFix(g, next)

FIRST(g, s) == SeqFirst(g, FirstFix(g, [X \in g.non_terminals |-> {}]), s)

\* the places <<k, i>> at which B stands in the right of production k
Occurrences(g, B) ==
    UNION {{<<k, i>> : i \in {j \in 1..Len(g.productions[k].right) :
                                 g.productions[k].right[j] = B}} :
              k \in 1..Len(g.productions)}

\* what the production A -> alpha B beta, B at place i, adds to FOLLOW(B)
FollowAdds(g, Fo, p, i) ==
    LET first == FIRST(g, SubSeq(p.right, i + 1, Len(p.right)))
    IN  (first \ {Epsilon}) \cup (IF Epsilon \in first THEN Fo[p.left] ELSE {})

RECURSIVE FollowFix(_, _)
FollowFix(g, Fo) ==
    LET next == [B \in g.non_terminals |->
                    Fo[B] \cup UNION {FollowAdds(g, Fo, g.productions[o[1]], o[2]) :
                                        o \in Occurrences(g, B)}]
    IN  IF next = Fo THEN Fo ELSE FollowFix(g, next)

\* '$' is seeded into FOLLOW of the declared axiom and of no other non-terminal
FOLLOW(g, B) ==
    FollowFix(g, [X \in g.non_terminals |->
                    IF X = g.axiom THEN {EndMarker} ELSE {}])[B]

\* the terminals t for which production p claims cell (p.left, t)
Claims(g, p) ==
    LET first == FIRST(g, p.right)
    IN  (first \ {Epsilon})
        \cup (IF Epsilon \in first THEN FOLLOW(g, p.left) ELSE {})

\* two distinct productions claim the same cell
Conflict(g) ==
    \E i, j \in 1..Len(g.productions) :
        /\ g.productions[i] # g.productions[j]
        /\ g.productions[i].left = g.productions[j].left
        /\ Claims(g, g.productions[i]) \cap Claims(g, g.productions[j]) # {}

\* the windows u[i..j] of u, the empty one included
Windows(u) == {SubSeq(u, i, j) : i \in 1..(Len(u) + 1), j \in 0..Len(u)}

\* s derives w, given the set D of the pairs <<X, v>> known with X deriving v
RECURSIVE SeqDerives(_, _, _, _)
SeqDerives(g, D, s, w) ==
    IF s = <<>> THEN w = <<>>
    ELSE IF s[1] \in g.terminals THEN
        /\ Len(w) > 0
        /\ w[1] = s[1]
        /\ SeqDerives(g, D, Tail(s), Tail(w))
    ELSE \E k \in 0..Len(w) :
            /\ <<s[1], SubSeq(w, 1, k)>> \in D
            /\ SeqDerives(g, D, Tail(s), SubSeq(w, k + 1, Len(w)))

RECURSIVE DerivesFix(_, _, _)
DerivesFix(g, u, D) ==
    LET next == D \cup UNION {{<<g.productions[k].left, v>> :
                                 v \in {x \in Windows(u) :
                                           SeqDerives(g, D, g.productions[k].right, x)}} :
                                k \in 1..Len(g.productions)}
    IN  IF next = D THEN D ELSE DerivesFix(g, u, next)

\* the terminal string u is derivable from the axiom of g
Derivable(g, u) == <<g.axiom, u>> \in DerivesFix(g, u, {})


---------------------------------------------------------------------------
(* Claims *)

Declared(g, s) == Symbols(s) \subseteq g.terminals \cup g.non_terminals

\* C1 (under SpecAnalyze): when analyze(w, G.axiom) on the table
\* get_ll1_table() built for G has ended, it has accepted if and only if
\* w = u + '$' with u a terminal string derivable from G.axiom; on every
\* other input it has raised SyntaxError.
C1_RoundTrip ==
    (call.op = "analyze" /\ pc \in {"accepted", "SyntaxError"}) =>
        LET w == call.input_string IN
        (pc = "accepted") <=>
            /\ Len(w) > 0
            /\ w[Len(w)] = EndMarker
            /\ Derivable(grammar, SubSeq(w, 1, Len(w) - 1))

\* C2: whenever get_ll1_table() returns, it returns None if and only if two
\* distinct productions of the same non-terminal claim the same cell, and a
\* table if there is no such pair; is_ll1() returns False and True likewise.
C2_NoneIffConflict ==
    /\ (call.op = "get_ll1_table" /\ call.out.exc = "None") =>
          ((call.out.obj = NoObject) <=> Conflict(grammar))
    /\ (call.op = "is_ll1" /\ call.out.exc = "None") =>
          call.out.ret = {~Conflict(grammar)}

\* C3: when get_ll1_table() returns a table, its non_terminals are the
\* grammar's, its terminals are the grammar's plus '$', and its cells are
\* exactly (A, t) -> g for every production A -> g and every t that the
\* production claims: t in FIRST(g) \ {eps}, or t in FOLLOW(A) when eps is
\* in FIRST(g).
C3_TableCells ==
    (call.op = "get_ll1_table" /\ call.out.exc = "None" /\ call.out.obj # NoObject) =>
        LET t == call.out.obj
            ps == grammar.productions
        IN  /\ t.non_terminals = grammar.non_terminals
            /\ t.terminals = grammar.terminals \cup {EndMarker}
            /\ \A k \in 1..Len(ps) : \A x \in Claims(grammar, ps[k]) :
                  /\ <<ps[k].left, x>> \in DOMAIN t.cells
                  /\ t.cells[<<ps[k].left, x>>] = ps[k].right
            /\ \A key \in DOMAIN t.cells : \E k \in 1..Len(ps) :
                  /\ ps[k].left = key[1]
                  /\ key[2] \in Claims(grammar, ps[k])

\* C4: for every non-terminal B, what compute_follow(B) returns is FOLLOW(B)
\* in the least fixed point of the FOLLOW rules with '$' seeded into FOLLOW
\* of the declared axiom, whatever the order of the productions.
C4_FollowFromAxiom ==
    (call.op = "compute_follow" /\ call.out.exc = "None") =>
        call.out.ret = FOLLOW(grammar, call.symbol)

\* C5: for every sequence s over the grammar's alphabets, compute_first(s)
\* returns exactly the terminals that can begin a string derived from s,
\* and eps if and only if every symbol of s can derive eps.
C5_FirstSet ==
    (call.op = "compute_first" /\ Declared(grammar, call.sentence)) =>
        call.out = Returned(FIRST(grammar, call.sentence))

\* C6: compute_first(s) terminates on every grammar: it never recurses
\* without bound (which the interpreter ends with RecursionError).
C6_FirstTerminates ==
    call.op = "compute_first" => call.out.exc # "RecursionError"

\* C7: compute_first(s) fails with ValueError if and only if some symbol of
\* s, at any position, is in neither alphabet; the check comes before any
\* expansion, so a sentence with such a symbol ends in ValueError also when
\* expanding its first symbol would not end.
C7_InvalidSymbol ==
    call.op = "compute_first" =>
        (call.out.exc = "ValueError") <=> ~Declared(grammar, call.sentence)

\* witness of C7: ValueError for an undeclared symbol that follows a
\* non-terminal whose expansion recurses without bound
C7_Witness ==
    /\ call.op = "compute_first"
    /\ call.out.exc = "ValueError"
    /\ Len(call.sentence) = 2
    /\ call.sentence[1] \in grammar.non_terminals
    /\ compute_first_rec(grammar, <<call.sentence[1]>>, 1).exc = "RecursionError"

\* the rules of section 3 for the arguments of Grammar(...)
GrammarRules(terminals, non_terminals, productions, axiom) ==
    /\ terminals \cap non_terminals = {}
    /\ axiom \in non_terminals
    /\ \A i \in 1..Len(productions) :
          /\ productions[i].left \in non_terminals
          /\ productions[i].right # None =>
                Symbols(productions[i].right) \subseteq terminals \cup non_terminals

\* C8 (under SpecGrammar): Grammar(...) succeeds, giving a Grammar with
\* exactly the arguments as its fields, if and only if the arguments keep
\* the rules; otherwise it raises and no Grammar object results.
C8_Construction ==
    call.op = "Grammar" =>
        IF GrammarRules(call.terminals, call.non_terminals,
                        call.productions, call.axiom)
        THEN /\ call.exc = "None"
             /\ grammar = [kind |-> "Grammar",
                           terminals |-> call.terminals,
                           non_terminals |-> call.non_terminals,
                           productions |-> call.productions,
                           axiom |-> call.axiom]
        ELSE /\ call.exc = "ValueError"
             /\ grammar = NoObject

\* witness of C8: construction refused only for a symbol of a right-hand
\* side that comes after a good production
C8_Witness ==
    /\ call.op = "Grammar"
    /\ call.exc = "ValueError"
    /\ grammar = NoObject
    /\ call.terminals \cap call.non_terminals = {}
    /\ call.axiom \in call.non_terminals
    /\ Len(call.productions) = 2
    /\ call.productions[1] = Production("A", <<"a">>)
    /\ call.productions[2] = Production("S", <<"a", "w">>)

\* C9 (under SpecTable): every key (N, t) of the table's cells has N in its
\* non_terminals and t in its terminals, and every symbol of every stored
\* right-hand side is in terminals or non_terminals, after construction and
\* after any add_cell calls.
C9_TableInvariant ==
    table # NoObject =>
        \A key \in DOMAIN table.cells :
            /\ key[1] \in table.non_terminals
            /\ key[2] \in table.terminals
            /\ Symbols(table.cells[key]) \subseteq table.terminals \cup table.non_terminals

\* C10 (under SpecTable): add_cell(cell) raises RepeatedCellError exactly
\* when the key of cell is present, and then leaves the cells as they were;
\* otherwise it adds that one mapping; in both cases every entry present
\* before keeps its right-hand side.
C10_AddCell ==
    [][ (call'.op = "add_cell" /\ table # NoObject) =>
            LET key == <<call'.cell.non_terminal, call'.cell.terminal>> IN
            /\ (call'.exc = "RepeatedCellError") <=> (key \in DOMAIN table.cells)
            /\ (call'.exc = "None") <=> (key \notin DOMAIN table.cells)
            /\ key \in DOMAIN table.cells => table'.cells = table.cells
            /\ key \notin DOMAIN table.cells =>
                  /\ DOMAIN table'.cells = DOMAIN table.cells \cup {key}
                  /\ table'.cells[key] = call'.cell.right
            /\ \A k \in DOMAIN table.cells : table'.cells[k] = table.cells[k]
            /\ table'.terminals = table.terminals
            /\ table'.non_terminals = table.non_terminals ]_vars

\* witness of C10: a cell refused for a key that holds another right-hand
\* side, which is kept
C10_Witness ==
    /\ call.op = "add_cell"
    /\ call.exc = "RepeatedCellError"
    /\ table.cells[<<call.cell.non_terminal, call.cell.terminal>>] # call.cell.right

\* C11 (under SpecTableAnalyze): analyze accepts only with the stack empty
\* and exactly the lone '$' left of the input, and raises SyntaxError only
\* for a missing cell or for a loop that ended with something else than the
\* lone '$' left; so no accepted input, on any table from any start, is
\* empty or ends with another symbol than '$'.
C11_AcceptOnlyAtEndMarker ==
    call.op = "analyze" =>
        /\ pc = "accepted" =>
              /\ input_string = <<EndMarker>>
              /\ start = <<>>
              /\ Len(call.input_string) > 0
              /\ call.input_string[Len(call.input_string)] = EndMarker
        /\ pc = "SyntaxError" =>
              \/ /\ start # <<>>
                 /\ input_string # <<>>
                 /\ <<start[1], input_string[1]>> \notin DOMAIN table.cells
              \/ /\ start = <<>> \/ input_string = <<>>
                 /\ input_string # <<EndMarker>>

\* witness of C11: an input accepted after a cell was applied and a symbol
\* of the input matched
C11_Witness ==
    /\ call.op = "analyze"
    /\ pc = "accepted"
    /\ call.start # <<>>
    /\ Len(call.input_string) >= 2

\* the stack and the remaining input after the trip through the loop that
\* applies the cell of (top of st, head of inp)
Successor(cells, st, inp) ==
    LET s1 == cells[<<Head(st), Head(inp)>>] \o Tail(st)
    IN  IF s1 # <<>> /\ Head(s1) = Head(inp)
        THEN <<Tail(s1), Tail(inp)>>
        ELSE <<s1, inp>>

\* C12 (under SpecTableAnalyze): every step of a running analyze has one
\* outcome, fixed by the cells, the stack and the remaining input: it
\* rejects, or accepts, or goes on from the one successor state; and the
\* step leaves the table as it was.
C12_Deterministic ==
    [][ pc = "loop" =>
          /\ table' = table
          /\ IF start = <<>> \/ input_string = <<>> THEN
                 /\ pc' = IF input_string = <<EndMarker>>
                          THEN "accepted" ELSE "SyntaxError"
                 /\ UNCHANGED <<start, input_string>>
             ELSE IF <<Head(start), Head(input_string)>> \notin DOMAIN table.cells THEN
                 /\ pc' = "SyntaxError"
                 /\ UNCHANGED <<start, input_string>>
             ELSE
                 \/ /\ pc' = "loop"
                    /\ <<start', input_string'>> =
                           Successor(table.cells, start, input_string)
                 \/ /\ pc' = "MemoryError"
                    /\ Len(Successor(table.cells, start, input_string)[1]) > MaxStack
                    /\ UNCHANGED <<start, input_string>> ]_vars

\* witness of C12: a run that went through several states of the loop, on a
\* table with two cells, and ended
C12_Witness ==
    /\ call.op = "analyze"
    /\ pc \in {"accepted", "SyntaxError"}
    /\ Cardinality(DOMAIN table.cells) >= 2
    /\ Len(call.input_string) - Len(input_string) >= 2

\* compute_first returns for every symbol of the grammar g
FirstComputable(g) ==
    \A X \in g.non_terminals \cup g.terminals :
        compute_first(g, <<X>>).exc = "None"

\* C13 as the specification states it (under Spec): on a Grammar on which
\* FIRST is computable, the loop of compute_follow ends after at most
\* |non_terminals| passes, the last one that saw no change counted.
C13_PassesWithinNonTerminals ==
    (call.op = "compute_follow" /\ call.out.exc \in {"None", "KeyError"}
       /\ FirstComputable(grammar)) =>
        call.out.passes <= Cardinality(grammar.non_terminals)

\* C13, amended (under Spec): on such a Grammar the loop ends after at
\* least one and at most |non_terminals| + 1 passes, the last one that saw
\* no change counted.
C13_PassesWithinNonTerminalsPlusOne ==
    (call.op = "compute_follow" /\ call.out.exc \in {"None", "KeyError"}
       /\ FirstComputable(grammar)) =>
        /\ call.out.passes >= 1
        /\ call.out.passes <= Cardinality(grammar.non_terminals) + 1

\* witness of C13: a call that needed |non_terminals| + 1 passes
C13_Witness ==
    /\ call.op = "compute_follow"
    /\ call.out.exc = "None"
    /\ FirstComputable(grammar)
    /\ call.out.passes = Cardinality(grammar.non_terminals) + 1

\* C14 (under SpecTableAnalyzeFair): a running analyze leaves its loop
\* after finitely many steps, on every constructed table, from every start,
\* on every input.
C14_AnalyzeTerminates ==
    (pc = "loop") ~> (pc # "loop")


=============================================================================
